---- MODULE Spec2Model ----
(***************************************************************************)
(* The three request handlers of the result proxy and the upstream they    *)
(* query:                                                                  *)
(*   "peritem"   src/api/result.js       batch of 5, one record per key    *)
(*   "aggregate" src/unnamed/part_001    batch of 5, data of the successes *)
(*   "range"     src/unnamed/part_000    fixed double range, with counts   *)
(* One behaviour of the model is one invocation of one handler: the        *)
(* synchronous prefix of the handler (Handle), the events of the N         *)
(* concurrent fetches, and the continuation after Promise.allSettled        *)
(* (Respond).  Strings are sequences of one-character strings.             *)
(***************************************************************************)
EXTENDS Integers, Sequences, FiniteSets

VARIABLES
    variant,              \* which handler file is deployed
    upstream,             \* how the upstream answers during this request
    abortName,            \* error.name the fetch implementation gives an abort
                          \* (it shows only where a timeout can happen)
    req,                  \* the inbound request: [method, query]
    pc,                   \* position of the handler: "start", "await", "done"
    res,                  \* the response object
    registrationNumbers,  \* the generated keys
    gets,                 \* upstream GETs issued so far (their redg_no), in order
    phase,                \* per key: "headers", "body", "late", "settled"
    timer,                \* per key: "armed", "cleared", "fired"
    got,                  \* per key: what the upstream has answered so far
    promise               \* per key: the promise fetchSingleResult returned

vars == <<variant, upstream, abortName, req, pc, res, registrationNumbers,
          gets, phase, timer, got, promise>>

(***************************************************************************)
(* Program constants                                                       *)
(***************************************************************************)
BATCH_SIZE == 5
PREFIX_LENGTH == 8
Range1Lo == 10
Range1Hi == 60
Range2Lo == 901
Range2Hi == 960
PadLimit == 900
RegNoLength == 11

(***************************************************************************)
(* Bounds of the exploration                                               *)
(***************************************************************************)
\* A batch of at most this many keys is explored in every completion order.
MaxFreeOrder == 5
\* A longer batch completes in key order, up to this many keys out of order.
ReorderWindow == 2

Variants == {"peritem", "aggregate", "range"}

(***************************************************************************)
(* Strings                                                                 *)
(***************************************************************************)
Digits == <<"0", "1", "2", "3", "4", "5", "6", "7", "8", "9">>

IsDigit(c) == \E d \in 1..10 : Digits[d] = c

DigitVal(c) == (CHOOSE d \in 1..10 : Digits[d] = c) - 1

\* Number.prototype.toString of a natural number
RECURSIVE NumToString(_)
NumToString(n) == IF n < 10 THEN <<Digits[n + 1]>>
               ELSE NumToString(n \div 10) \o <<Digits[(n % 10) + 1]>>

\* String.prototype.padStart(3, '0')
RECURSIVE PadStart3(_)
PadStart3(s) == IF Len(s) >= 3 THEN s ELSE PadStart3(<<"0">> \o s)

\* the longest prefix of s made of digits
RECURSIVE LeadingDigits(_)
LeadingDigits(s) == IF s = <<>> \/ ~IsDigit(Head(s)) THEN <<>>
                    ELSE <<Head(s)>> \o LeadingDigits(Tail(s))

RECURSIVE DigitsValue(_)
DigitsValue(s) == IF s = <<>> THEN 0
                  ELSE 10 * DigitsValue(SubSeq(s, 1, Len(s) - 1)) + DigitVal(s[Len(s)])

\* leading white space is skipped by parseInt
RECURSIVE TrimStart(_)
TrimStart(s) == IF s # <<>> /\ Head(s) = " " THEN TrimStart(Tail(s)) ELSE s

\* parseInt: white space, an optional sign, then the number of the leading
\* digits; NaN when there are none
ParseInt(s) == LET t == TrimStart(s)
                   signed == t # <<>> /\ Head(t) \in {"+", "-"}
                   d == LeadingDigits(IF signed THEN Tail(t) ELSE t)
               IN  IF d = <<>> THEN [nan |-> TRUE, val |-> 0]
                   ELSE [nan |-> FALSE,
                         val |-> IF signed /\ Head(t) = "-" THEN 0 - DigitsValue(d)
                                 ELSE DigitsValue(d)]

UpperChar(c) == CASE c = "i" -> "I" [] c = "v" -> "V" [] c = "x" -> "X" [] OTHER -> c

\* String.prototype.toUpperCase
ToUpperCase(s) == [k \in 1..Len(s) |-> UpperChar(s[k])]

\* String.prototype.slice(0, -3) and slice(-3)
SliceHead(s) == SubSeq(s, 1, Len(s) - 3)
SliceTail(s) == IF Len(s) <= 3 THEN s ELSE SubSeq(s, Len(s) - 2, Len(s))

\* String.prototype.substring(0, n)
Substring0(s, n) == SubSeq(s, 1, IF n < Len(s) THEN n ELSE Len(s))

(***************************************************************************)
(* Query parameters: absent (undefined) or a string                        *)
(***************************************************************************)
Absent == [present |-> FALSE, val |-> <<>>]
Given(s) == [present |-> TRUE, val |-> s]

\* JavaScript falsiness of a query parameter: undefined or ''
Falsy(p) == ~p.present \/ p.val = <<>>

\* /^\d{11}$/.test(p)
ElevenDigits(p) == /\ p.present
                   /\ Len(p.val) = RegNoLength
                   /\ \A k \in 1..Len(p.val) : IsDigit(p.val[k])

romanMap == {<<"I">>, <<"I", "I">>, <<"I", "I", "I">>, <<"I", "V">>, <<"V">>,
             <<"V", "I">>, <<"V", "I", "I">>, <<"V", "I", "I", "I">>}

MsgRegNo == "Invalid parameter. Use \"reg_no\" query parameter with a full 11-digit registration number."
MsgYear == "Missing or invalid \"year\" parameter."
MsgSemester == "Missing or invalid \"semester\" parameter (use Roman numerals I-VIII)."
MsgExamHeld == "Missing required \"exam_held\" parameter."
MsgPrefix == "Missing or invalid parameter. Please provide a full 11-digit registration number using the \"prefix\" query parameter."
NoError == "null"

\* validationError with the second chain resetting the first one's message
validationErrorReset(q) ==
    LET normalizedSemester == IF q.semester.present THEN Given(ToUpperCase(q.semester.val))
                              ELSE Absent
    IN  IF Falsy(normalizedSemester) \/ normalizedSemester.val \notin romanMap
        THEN MsgSemester
        ELSE IF Falsy(q.exam_held) THEN MsgExamHeld
        ELSE NoError

\* validationError with the semester message copied to the exam_held branch
validationErrorCopiedMessage(q) ==
    LET first == IF Falsy(q.reg_no) \/ ~ElevenDigits(q.reg_no) THEN MsgRegNo
                 ELSE IF Falsy(q.year) \/ ParseInt(q.year.val).nan THEN MsgYear
                 ELSE NoError
        normalizedSemester == IF q.semester.present THEN Given(ToUpperCase(q.semester.val))
                              ELSE Absent
    IN  IF Falsy(normalizedSemester) \/ normalizedSemester.val \notin romanMap
        THEN MsgSemester
        ELSE IF Falsy(q.exam_held) THEN MsgSemester
        ELSE first

\* the validation chain of the batch handlers: the message, or null
validationError(q) ==
    LET first == IF Falsy(q.reg_no) \/ ~ElevenDigits(q.reg_no) THEN MsgRegNo
                 ELSE IF Falsy(q.year) \/ ParseInt(q.year.val).nan THEN MsgYear
                 ELSE NoError
        normalizedSemester == IF q.semester.present THEN Given(ToUpperCase(q.semester.val))
                              ELSE Absent
    IN  IF Falsy(normalizedSemester) \/ normalizedSemester.val \notin romanMap
        THEN MsgSemester
        ELSE IF Falsy(q.exam_held) THEN MsgExamHeld
        ELSE first

\* the validation of the range handler
PrefixInvalid(q) == Falsy(q.prefix) \/ ~ElevenDigits(q.prefix)

(***************************************************************************)
(* Candidate generation                                                    *)
(***************************************************************************)
\* Suffix without the padding
SuffixUnpadded(i) == NumToString(i)

Suffix(i) == IF i >= PadLimit THEN NumToString(i) ELSE PadStart3(NumToString(i))

\* BatchKeys taking the size of the batch from the request, unclamped
BatchKeysRequestedSize(reg_no) ==
    LET prefix == SliceHead(reg_no)
        startNum == ParseInt(SliceTail(reg_no)).val
        size == IF Falsy(req.query.batch_size) THEN BATCH_SIZE
                ELSE ParseInt(req.query.batch_size.val).val
    IN  [k \in 1..size |-> prefix \o Suffix(startNum + k - 1)]

\* the batch handlers: BATCH_SIZE keys from the last three digits of reg_no
BatchKeys(reg_no) ==
    LET prefix == SliceHead(reg_no)
        startNum == ParseInt(SliceTail(reg_no)).val
    IN  [k \in 1..BATCH_SIZE |-> prefix \o Suffix(startNum + k - 1)]

\* RangeKeys with the second loop beginning one suffix early
RangeKeysEarlySecond(fullRegNo) ==
    LET actualPrefix == Substring0(fullRegNo, PREFIX_LENGTH)
    IN  [k \in 1..(Range1Hi - Range1Lo + 1) |->
            actualPrefix \o PadStart3(NumToString(Range1Lo + k - 1))]
        \o [k \in 1..(Range2Hi - Range2Lo + 2) |->
            actualPrefix \o NumToString(Range2Lo + k - 2)]

\* the range handler: 010..060 then 901..960 under the first 8 digits
RangeKeys(fullRegNo) ==
    LET actualPrefix == Substring0(fullRegNo, PREFIX_LENGTH)
    IN  [k \in 1..(Range1Hi - Range1Lo + 1) |->
            actualPrefix \o PadStart3(NumToString(Range1Lo + k - 1))]
        \o [k \in 1..(Range2Hi - Range2Lo + 1) |->
            actualPrefix \o NumToString(Range2Lo + k - 1)]

(***************************************************************************)
(* The upstream's JSON envelope and the outcome of one fetch               *)
(***************************************************************************)
NoData == [kind |-> "undefined"]
NullData == [kind |-> "null"]

\* the data record the upstream holds for a key
RecordOf(regNo) == [kind |-> "object", redg_no |-> regNo, name |-> "student",
                    father_name |-> "father", mother_name |-> "mother"]

\* JavaScript truthiness of jsonData.data
Truthy(d) == d.kind \notin {"undefined", "null"}

\* a response body: text that is not JSON, the JSON null, or a JSON object
\* (status 0: no status field; message "": no message)
Garbled == [form |-> "garbled", status |-> 0, message |-> "", data |-> NoData]
JsonNull == [form |-> "null", status |-> 0, message |-> "", data |-> NoData]
Envelope(s, m, d) == [form |-> "object", status |-> s, message |-> m, data |-> d]
NoBody == [form |-> "none", status |-> 0, message |-> "", data |-> NoData]
Stall == [form |-> "stall", status |-> 0, message |-> "", data |-> NoData]

\* a reason string: pre, then tail, then the number num (when num >= 0)
Reason(pre, tail, num) == [pre |-> pre, tail |-> tail, num |-> num]
NoReason == Reason("undefined", "", -1)
TimedOut == Reason("Request Timed Out", "", -1)

Outcome(st, regNo, reason, data) ==
    [status |-> st, regNo |-> regNo, reason |-> reason, data |-> data]

\* a thrown error
Err(name, message) == [name |-> name, message |-> message]
NoErr == Err("", "")

FetchReturn(value) == [tag |-> "return", value |-> value, error |-> NoErr]
FetchThrow(error) ==
    [tag |-> "throw", value |-> Outcome("", <<>>, NoReason, NoData), error |-> error]

\* apiResponse.ok
Ok(status) == status >= 200 /\ status <= 299

\* the branch taken when the response is not ok
HttpFailure(v, regNo, status) ==
    IF v = "peritem"
    THEN Outcome("error", regNo, Reason("BEU API Error: HTTP ", "", status), NoData)
    ELSE Outcome("failed", regNo, Reason("HTTP ", "", status), NoData)

\* message || `Status ${status}`
MessageOrStatus(pre, label, jsonData) ==
    IF jsonData.message # "" THEN Reason(pre, jsonData.message, -1)
    ELSE Reason(pre, label, jsonData.status)

\* Classify with the not-found check placed after the general check
ClassifyNotFoundLast(v, regNo, jsonData) ==
    IF jsonData.status # 200 \/ ~Truthy(jsonData.data)
    THEN IF v = "peritem"
         THEN Outcome("error", regNo,
                      MessageOrStatus("BEU API Data Error: ", "Status ", jsonData), NoData)
         ELSE Outcome("failed", regNo, MessageOrStatus("", "API Status ", jsonData), NoData)
    ELSE Outcome("success", regNo, NoReason, jsonData.data)

\* Classify without the check that the envelope carries data
ClassifyNoDataCheck(v, regNo, jsonData) ==
    IF v # "range" /\ jsonData.status = 404
    THEN Outcome("not_found", regNo,
                 Reason(IF jsonData.message # "" THEN jsonData.message
                        ELSE "Record not found.", "", -1), NoData)
    ELSE IF jsonData.status # 200
    THEN IF v = "peritem"
         THEN Outcome("error", regNo,
                      MessageOrStatus("BEU API Data Error: ", "Status ", jsonData), NoData)
         ELSE Outcome("failed", regNo, MessageOrStatus("", "API Status ", jsonData), NoData)
    ELSE Outcome("success", regNo, NoReason, jsonData.data)

\* the checks on the parsed envelope
Classify(v, regNo, jsonData) ==
    IF v # "range" /\ jsonData.status = 404
    THEN Outcome("not_found", regNo,
                 Reason(IF jsonData.message # "" THEN jsonData.message
                        ELSE "Record not found.", "", -1), NoData)
    ELSE IF jsonData.status # 200 \/ ~Truthy(jsonData.data)
    THEN IF v = "peritem"
         THEN Outcome("error", regNo,
                      MessageOrStatus("BEU API Data Error: ", "Status ", jsonData), NoData)
         ELSE Outcome("failed", regNo, MessageOrStatus("", "API Status ", jsonData), NoData)
    ELSE Outcome("success", regNo, NoReason, jsonData.data)

\* await apiResponse.json() and the statements after it, inside the try
ReadJson(v, regNo, body) ==
    IF body.form = "garbled"
    THEN FetchThrow(Err("SyntaxError", "Unexpected token"))
    ELSE IF body.form = "null"
    THEN FetchThrow(Err("TypeError", "Cannot read properties of null"))
    ELSE FetchReturn(Classify(v, regNo, body))

\* the catch block
Catch(v, regNo, error) ==
    IF v = "range"
    THEN Outcome("error", regNo,
                 IF error.name = "TimeoutError" THEN TimedOut
                 ELSE Reason("Fetch Error", "", -1), NoData)
    ELSE Outcome("error", regNo,
                 IF error.name = "AbortError" THEN TimedOut
                 ELSE Reason("Fetch Error: ", error.message, -1), NoData)

Pending == [state |-> "pending", value |-> Outcome("", <<>>, NoReason, NoData),
            reason |-> NoErr]
Fulfilled(value) == [state |-> "fulfilled", value |-> value, reason |-> NoErr]
Rejected(error) == [state |-> "rejected", value |-> Outcome("", <<>>, NoReason, NoData),
                    reason |-> error]

\* Settle without the catch block: a thrown error rejects the promise
SettleNoCatch(v, regNo, r) ==
    IF r.tag = "return" THEN Fulfilled(r.value) ELSE Rejected(r.error)

\* the try/catch around the body of fetchSingleResult: how its promise settles
Settle(v, regNo, r) ==
    IF r.tag = "return" THEN Fulfilled(r.value)
    ELSE Fulfilled(Catch(v, regNo, r.error))

(***************************************************************************)
(* The upstream                                                            *)
(***************************************************************************)
\* one way of answering one GET: refuse the connection, stay silent, or
\* answer with an HTTP status and then a body (or never finish the body)
Refuse == [net |-> "refuse", status |-> 0, body |-> NoBody]
Silent == [net |-> "silent", status |-> 0, body |-> NoBody]
Answer(status, body) == [net |-> "answer", status |-> status, body |-> body]

\* answers explored in every combination and order
FreeAnswers(regNo) ==
    { Answer(200, Envelope(200, "", RecordOf(regNo))),
      Answer(200, Envelope(404, "No Record Found", NoData)),
      Answer(200, Stall),
      Answer(500, NoBody),
      Silent }

\* a fixed mix of answers, one per key, repeating
MixedCycle(regNo) ==
    << Answer(200, Envelope(200, "", RecordOf(regNo))),
       Answer(200, Envelope(404, "No Record Found", NoData)),
       Answer(500, NoBody),
       Refuse,
       Answer(200, Garbled),
       Answer(200, Envelope(200, "", NoData)),
       Silent,
       Answer(200, JsonNull),
       Answer(200, Envelope(404, "", NoData)),
       Answer(200, Envelope(500, "Server busy", RecordOf(regNo))),
       Answer(200, Stall),
       Answer(200, Envelope(200, "ok", NullData)),
       Answer(404, NoBody),
       Answer(200, Envelope(0, "", RecordOf(regNo))),
       Answer(200, Envelope(200, "fine", RecordOf(regNo))) >>

Profiles == {[mode |-> "any", shift |-> 0], [mode |-> "allok", shift |-> 0],
             [mode |-> "down", shift |-> 0], [mode |-> "silent", shift |-> 0]}
            \cup {[mode |-> "mixed", shift |-> s] : s \in {0, 5, 10}}

\* the answers the upstream may give to the i-th GET of the batch
Allowed(i) ==
    LET regNo == registrationNumbers[i]
        cycle == MixedCycle(regNo)
    IN  CASE upstream.mode = "any" -> FreeAnswers(regNo)
          [] upstream.mode = "allok" -> {Answer(200, Envelope(200, "", RecordOf(regNo)))}
          [] upstream.mode = "down" -> {Refuse}
          [] upstream.mode = "silent" -> {Silent}
          [] OTHER -> {cycle[((i - 1 + upstream.shift) % Len(cycle)) + 1]}

(***************************************************************************)
(* Requests                                                                *)
(***************************************************************************)
Prefix8 == <<"2", "2", "1", "0", "4", "1", "3", "4">>
Year2024 == <<"2", "0", "2", "4">>
July2025 == <<"J", "u", "l", "y", "/", "2", "0", "2", "5">>

RegInputs == {Absent, Given(<<>>),
              Given(Prefix8 \o <<"0", "0", "7">>),
              Given(Prefix8 \o <<"8", "9", "8">>),
              Given(Prefix8 \o <<"9", "9", "7">>),
              Given(Prefix8 \o <<"0", "7">>),
              Given(Prefix8 \o <<"0", "0", "x">>),
              Given(Prefix8 \o <<"0", "0", "0", "7">>)}
YearInputs == {Absent, Given(Year2024), Given(<<"2", "0", "x", "4">>),
               Given(<<"a", "b", "c", "d">>)}
SemesterInputs == {Absent, Given(<<"V">>), Given(<<"v", "i">>), Given(<<"I", "X">>)}
ExamHeldInputs == {Absent, Given(<<>>), Given(July2025)}
Methods == {"GET", "OPTIONS", "POST"}

\* start_suffix and batch_size are parameters no handler reads
Queries ==
    {q \in [reg_no : RegInputs, prefix : RegInputs, year : YearInputs,
            semester : SemesterInputs, exam_held : ExamHeldInputs,
            start_suffix : {Absent}, batch_size : {Absent}] :
        q.reg_no = Absent \/ q.prefix = Absent}

\* the request explored with every upstream answer in every order
BaseQuery == [reg_no |-> Given(Prefix8 \o <<"8", "9", "8">>), prefix |-> Absent,
              year |-> Given(Year2024), semester |-> Given(<<"V">>),
              exam_held |-> Given(July2025),
              start_suffix |-> Absent, batch_size |-> Absent]

\* the range handler reads the prefix parameter alone, and of it the first
\* eight digits: one valid registration number stands for all
RangeQueries ==
    {q \in Queries :
        /\ q.reg_no \notin {Given(Prefix8 \o <<"0", "0", "7">>),
                            Given(Prefix8 \o <<"9", "9", "7">>)}
        /\ q.prefix \notin {Given(Prefix8 \o <<"0", "0", "7">>),
                            Given(Prefix8 \o <<"9", "9", "7">>)}
        /\ \/ q.year = Absent /\ q.semester = Absent /\ q.exam_held = Absent
           \/ q.year = Given(Year2024) /\ q.semester = Given(<<"V">>)
              /\ q.exam_held = Given(July2025)}

\* encodeURIComponent, on the characters the inputs use
EncodeChar(c) == IF c = "/" THEN <<"%", "2", "F">> ELSE <<c>>
RECURSIVE EncodeURIComponent(_)
EncodeURIComponent(s) ==
    IF s = <<>> THEN <<>> ELSE EncodeChar(Head(s)) \o EncodeURIComponent(Tail(s))

(***************************************************************************)
(* The response                                                            *)
(***************************************************************************)
CorsHeaders == {"Access-Control-Allow-Origin", "Access-Control-Allow-Methods",
                "Access-Control-Allow-Headers"}

NoContent == [kind |-> "none"]
ErrorBody(msg) == [kind |-> "error", error |-> msg]
FailureBody(msg) == [kind |-> "failure", error |-> msg]

Unsent == [status |-> 0, headers |-> {}, body |-> NoContent, sends |-> 0]

\* res.setHeader(...), then res.status(code).json(body) or .end()
Send(r, extraHeaders, code, body) ==
    [status |-> code, headers |-> r.headers \cup extraHeaders, body |-> body,
     sends |-> r.sends + 1]

StatusSuccess == "success"
StatusNotFound == "Record not found"
StatusTemporary == "Error fetching result (temporary)"

Item(regNo, st, data, reason) ==
    [regNo |-> regNo, status |-> st, data |-> data, reason |-> reason]

\* StripParents deleting the student's name as well
StripEveryName(d) ==
    [f \in DOMAIN d \ {"father_name", "mother_name", "name"} |-> d[f]]

\* delete data.father_name; delete data.mother_name
StripParents(d) ==
    [f \in DOMAIN d \ {"father_name", "mother_name"} |-> d[f]]

\* MapResult keeping the upstream's data on every record
MapResultKeepData(result, attemptedRegNo) ==
    IF result.state = "fulfilled"
    THEN Item(result.value.regNo,
              CASE result.value.status = "success" -> StatusSuccess
                [] result.value.status = "not_found" -> StatusNotFound
                [] OTHER -> StatusTemporary,
              RecordOf(result.value.regNo), result.value.reason)
    ELSE Item(attemptedRegNo, StatusTemporary, NoData,
              Reason("Promise rejected during fetch", "", -1))

\* the per-item handler's mapping of one settled promise
MapResult(result, attemptedRegNo) ==
    IF result.state = "fulfilled"
    THEN CASE result.value.status = "success" ->
                Item(result.value.regNo, StatusSuccess,
                     StripParents(result.value.data), NoReason)
           [] result.value.status = "not_found" ->
                Item(result.value.regNo, StatusNotFound, NoData, NoReason)
           [] OTHER ->
                Item(result.value.regNo, StatusTemporary, NoData, result.value.reason)
    ELSE Item(attemptedRegNo, StatusTemporary, NoData,
              Reason("Promise rejected during fetch", "", -1))

\* the mapping throws when it deletes a property of undefined or null
MapThrows(result) ==
    /\ result.state = "fulfilled"
    /\ result.value.status = "success"
    /\ ~Truthy(result.value.data)

IsSuccess(result) == result.state = "fulfilled" /\ result.value.status = "success"

IsFulfilled(result) == result.state = "fulfilled"

\* SuccessfulData filtering on the promise's state alone
SuccessfulDataAnyStatus(results) ==
    LET kept == SelectSeq(results, IsFulfilled)
    IN  [k \in 1..Len(kept) |-> kept[k].value.data]

\* the data of the successful results, in the order of the results
SuccessfulData(results) ==
    LET kept == SelectSeq(results, IsSuccess)
    IN  [k \in 1..Len(kept) |-> kept[k].value.data]

\* what the handler sends once Promise.allSettled has resolved
Compose(v, results, keys) ==
    CASE v = "peritem" ->
           IF \E k \in 1..Len(results) : MapThrows(results[k])
           THEN [code |-> 500,
                 body |-> FailureBody("An unexpected server error occurred processing the batch.")]
           ELSE [code |-> 200,
                 body |-> [kind |-> "items",
                           items |-> [k \in 1..Len(results) |->
                                         MapResult(results[k], keys[k])]]]
      [] v = "aggregate" ->
           [code |-> 200, body |-> [kind |-> "data", results |-> SuccessfulData(results)]]
      [] OTHER ->
           [code |-> 200,
            body |-> [kind |-> "summary",
                      count |-> Len(SuccessfulData(results)),
                      total_attempted |-> Len(keys),
                      extracted_prefix |-> Substring0(keys[1], PREFIX_LENGTH),
                      results |-> SuccessfulData(results)]]

(***************************************************************************)
(* State                                                                   *)
(***************************************************************************)
AbortNames(v) == IF v = "range" THEN {"AbortError", "TimeoutError"} ELSE {"AbortError"}

Init ==
    /\ variant \in Variants
    /\ upstream \in Profiles
    /\ abortName \in AbortNames(variant)
    /\ req \in [method : Methods,
                query : IF variant = "range" THEN RangeQueries ELSE Queries]
    /\ upstream.mode = "any" =>
          variant # "range" /\ req = [method |-> "GET", query |-> BaseQuery]
    /\ req.method # "GET" => upstream.mode = "allok"
    /\ variant = "range" => upstream.shift = 0
    /\ upstream.mode \in {"allok", "down"} => abortName = "AbortError"
    /\ pc = "start"
    /\ res = Unsent
    /\ registrationNumbers = <<>>
    /\ gets = <<>>
    /\ phase = <<>>
    /\ timer = <<>>
    /\ got = <<>>
    /\ promise = <<>>

N == Len(registrationNumbers)

NothingYet == [net |-> "pending", status |-> 0, body |-> NoBody]

\* IssueGets fetching the first key a second time
IssueGetsRepeatFirst(keys, year, semester, encodedExamHeld) ==
    [k \in 1..(Len(keys) + 1) |->
        [redg_no |-> keys[IF k > Len(keys) THEN 1 ELSE k], year |-> year,
         semester |-> semester, exam_held |-> encodedExamHeld]]

\* the GETs one batch issues: one per key, with the query of the request
IssueGets(keys, year, semester, encodedExamHeld) ==
    [k \in 1..Len(keys) |->
        [redg_no |-> keys[k], year |-> year, semester |-> semester,
         exam_held |-> encodedExamHeld]]

\* registrationNumbers.map(fetchSingleResult): every fetch runs to its first await
StartBatch(keys, year, semester, encodedExamHeld) ==
    /\ registrationNumbers' = keys
    /\ gets' = IssueGets(keys, year, semester, encodedExamHeld)
    /\ phase' = [k \in 1..Len(keys) |-> "headers"]
    /\ timer' = [k \in 1..Len(keys) |-> "armed"]
    /\ got' = [k \in 1..Len(keys) |-> NothingYet]
    /\ promise' = [k \in 1..Len(keys) |-> Pending]
    /\ pc' = "await"
    /\ res' = IF variant = "range" THEN res
              ELSE [res EXCEPT !.headers = CorsHeaders]

Finish(extraHeaders, code, body) ==
    /\ res' = Send(res, extraHeaders, code, body)
    /\ pc' = "done"
    /\ UNCHANGED <<registrationNumbers, gets, phase, timer, got, promise>>

\* the handler of the two batch variants, up to await Promise.allSettled
HandleBatch ==
    LET q == req.query
    IN  IF req.method = "OPTIONS" THEN Finish(CorsHeaders, 204, NoContent)
        ELSE IF req.method # "GET"
        THEN Finish(CorsHeaders \cup {"Allow"}, 405, ErrorBody("Method Not Allowed"))
        ELSE IF validationError(q) # NoError
        THEN Finish(CorsHeaders, 400, ErrorBody(validationError(q)))
        ELSE IF ParseInt(SliceTail(q.reg_no.val)).nan
        THEN Finish(CorsHeaders, 400,
                    ErrorBody("Could not parse starting number from reg_no."))
        ELSE StartBatch(BatchKeys(q.reg_no.val), q.year.val,
                        ToUpperCase(q.semester.val), EncodeURIComponent(q.exam_held.val))

\* the handler of the range variant, up to await Promise.allSettled
HandleRange ==
    IF PrefixInvalid(req.query)
    THEN Finish({}, 400, ErrorBody(MsgPrefix))
    ELSE StartBatch(RangeKeys(req.query.prefix.val), Year2024, <<"V">>,
                    EncodeURIComponent(July2025))

Handle ==
    /\ pc = "start"
    /\ IF variant = "range" THEN HandleRange ELSE HandleBatch
    /\ UNCHANGED <<variant, upstream, abortName, req>>

(***************************************************************************)
(* The events of one fetch                                                 *)
(***************************************************************************)
\* the first key whose promise is still pending (N + 1: none)
RECURSIVE FirstPendingFrom(_)
FirstPendingFrom(k) ==
    IF k > N \/ promise[k].state = "pending" THEN k ELSE FirstPendingFrom(k + 1)

Window == IF N <= MaxFreeOrder THEN N ELSE ReorderWindow

\* the fetches awaiting the upstream whose event may come next
Eligible ==
    IF pc # "await" THEN {}
    ELSE LET first == FirstPendingFrom(1)
             last == IF first + Window - 1 < N THEN first + Window - 1 ELSE N
         IN  {k \in first..last : promise[k].state = "pending"}

InFlight(i) == i \in Eligible

\* clearTimeout(timeoutId): the batch variants own a timer, the range variant
\* passes AbortSignal.timeout, which nothing clears
ClearTimeout(t) == IF variant = "range" THEN t ELSE "cleared"

Resolve(i, r) ==
    /\ promise' = [promise EXCEPT ![i] = Settle(variant, registrationNumbers[i], r)]
    /\ phase' = [phase EXCEPT ![i] = "settled"]

Frame == UNCHANGED <<variant, upstream, abortName, req, pc, res,
                     registrationNumbers, gets>>

\* the response headers arrive: fetch() resolves
ResponseArrives(i) ==
    /\ InFlight(i)
    /\ phase[i] = "headers"
    /\ \E a \in Allowed(i) :
          /\ a.net = "answer"
          /\ got' = [got EXCEPT ![i] = [net |-> "response", status |-> a.status,
                                        body |-> NoBody]]
          /\ timer' = [timer EXCEPT ![i] = ClearTimeout(@)]
          /\ IF Ok(a.status)
             THEN /\ phase' = [phase EXCEPT ![i] = "body"]
                  /\ UNCHANGED promise
             ELSE Resolve(i, FetchReturn(HttpFailure(variant, registrationNumbers[i],
                                                     a.status)))
    /\ Frame

\* the connection fails: fetch() rejects
FetchFails(i) ==
    /\ InFlight(i)
    /\ phase[i] = "headers"
    /\ Refuse \in Allowed(i)
    /\ got' = [got EXCEPT ![i] = [net |-> "refused", status |-> 0, body |-> NoBody]]
    /\ timer' = [timer EXCEPT ![i] = ClearTimeout(@)]
    /\ Resolve(i, FetchThrow(Err("FetchError", "connect ECONNREFUSED")))
    /\ Frame

\* the body arrives: apiResponse.json() settles
BodyArrives(i) ==
    /\ InFlight(i)
    /\ phase[i] \in {"body", "late"}
    /\ \E a \in Allowed(i) :
          /\ a.net = "answer"
          /\ a.status = got[i].status
          /\ a.body.form \notin {"none", "stall"}
          /\ got' = [got EXCEPT ![i].body = a.body]
          /\ Resolve(i, ReadJson(variant, registrationNumbers[i], a.body))
    /\ timer' = [timer EXCEPT ![i] = ClearTimeout(@)]
    /\ Frame

\* the upstream lets the timeout of fetch i pass
MaySlow(i) ==
    \/ phase[i] = "headers" /\ Silent \in Allowed(i)
    \/ phase[i] = "body" /\ Answer(got[i].status, Stall) \in Allowed(i)

\* FETCH_TIMEOUT ms have passed since fetch i began: an armed timer aborts the
\* fetch, a cleared one does nothing
Timeout(i) ==
    /\ InFlight(i)
    /\ MaySlow(i)
    /\ IF timer[i] = "armed"
       THEN /\ timer' = [timer EXCEPT ![i] = "fired"]
            /\ Resolve(i, FetchThrow(Err(abortName, "The operation was aborted.")))
       ELSE /\ phase' = [phase EXCEPT ![i] = "late"]
            /\ UNCHANGED <<timer, promise>>
    /\ UNCHANGED got
    /\ Frame

\* a join that resolves with the first promise to settle
FirstSettled == \E k \in 1..N : promise[k].state # "pending"

\* await Promise.allSettled(fetchPromises): every promise has settled
AllSettled == \A k \in 1..N : promise[k].state # "pending"

\* Promise.allSettled has resolved: the handler reduces the results and responds
Respond ==
    /\ pc = "await"
    /\ AllSettled
    /\ LET out == Compose(variant, promise, registrationNumbers)
       IN  res' = Send(res, IF variant = "range" /\ out.code = 200
                            THEN {"Cache-Control"} ELSE {},
                       out.code, out.body)
    /\ pc' = "done"
    /\ UNCHANGED <<variant, upstream, abortName, req, registrationNumbers, gets,
                   phase, timer, got, promise>>

Next ==
    \/ Handle
    \/ \E i \in Eligible : ResponseArrives(i)
    \/ \E i \in Eligible : FetchFails(i)
    \/ \E i \in Eligible : BodyArrives(i)
    \/ \E i \in Eligible : Timeout(i)
    \/ Respond

Spec == Init /\ [][Next]_vars

(***************************************************************************)
(* The synchronous part of the handler on every input: each registration   *)
(* number under two prefixes, and the parameters of the validation in      *)
(* every combination.  The fetches are not followed here.                  *)
(***************************************************************************)
OtherPrefix8 == <<"2", "1", "1", "0", "5", "1", "2", "7">>

ThreeDigits == {<<Digits[a], Digits[b], Digits[c]>> : a, b, c \in 1..10}

WideRegInputs == {Given(p \o t) : p \in {Prefix8, OtherPrefix8}, t \in ThreeDigits}

\* start_suffix and batch_size, which a request may supply
RangeParams == {[start_suffix |-> Absent, batch_size |-> Absent],
                [start_suffix |-> Absent, batch_size |-> Given(<<"5", "0">>)],
                [start_suffix |-> Given(<<"9", "5", "0">>),
                 batch_size |-> Given(<<"2", "0", "0">>)]}

WideYearInputs == YearInputs \cup {Given(<<>>), Given(<<" ", "2", "0", "2", "4">>),
                                   Given(<<"-", "5">>), Given(<<"x", "2", "0", "2", "4">>)}
WideSemesterInputs == SemesterInputs \cup {Given(<<>>), Given(<<"v", "i", "i", "i">>),
                                           Given(<<"0">>), Given(<<"5">>)}

\* every registration number, the other parameters well formed
GeneratorQueries(v) ==
    {[reg_no |-> IF v = "range" THEN Absent ELSE r,
      prefix |-> IF v = "range" THEN r ELSE Absent,
      year |-> Given(Year2024), semester |-> Given(<<"V">>),
      exam_held |-> Given(July2025),
      start_suffix |-> p.start_suffix, batch_size |-> p.batch_size] :
        r \in WideRegInputs, p \in RangeParams}

\* every combination of the validated parameters, the registration number
\* well formed or not
ValidationQueries(v) ==
    {[reg_no |-> IF v = "range" THEN Absent ELSE r,
      prefix |-> IF v = "range" THEN r ELSE Absent,
      year |-> y, semester |-> m, exam_held |-> e,
      start_suffix |-> Absent, batch_size |-> Absent] :
        r \in {Given(Prefix8 \o <<"0", "0", "7">>), Given(Prefix8 \o <<"0", "0", "x">>)},
        y \in WideYearInputs, m \in WideSemesterInputs, e \in ExamHeldInputs}

InputInit ==
    /\ variant \in Variants
    /\ upstream = [mode |-> "allok", shift |-> 0]
    /\ abortName = "AbortError"
    /\ req \in [method : {"GET"},
                query : GeneratorQueries(variant) \cup ValidationQueries(variant)]
    /\ pc = "start"
    /\ res = Unsent
    /\ registrationNumbers = <<>>
    /\ gets = <<>>
    /\ phase = <<>>
    /\ timer = <<>>
    /\ got = <<>>
    /\ promise = <<>>

InputSpec == InputInit /\ [][Handle]_vars

(***************************************************************************)
(* Properties                                                              *)
(***************************************************************************)
Keys == 1..N
Settled(k) == promise[k].state # "pending"
Succeeded(k) == promise[k].state = "fulfilled" /\ promise[k].value.status = "success"
BatchRan == pc = "done" /\ N > 0

\* C1: the response of a validated GET is sent only once every fetch of the
\* batch has an outcome, and every successful outcome is in it: no single
\* outcome ends the wait or drops the others.
C1_ResponseAfterEveryOutcome ==
    (res.sends > 0 /\ N > 0) =>
        /\ \A k \in Keys : Settled(k)
        /\ res.body.kind = "items" => Len(res.body.items) = N
        /\ res.body.kind \in {"data", "summary"} =>
              Len(res.body.results) = Cardinality({k \in Keys : Succeeded(k)})

\* a batch answered with a failed outcome and a successful one side by side
C1_Witness ==
    /\ BatchRan
    /\ upstream.mode = "any"
    /\ \E j, k \in Keys : /\ j < k
                          /\ promise[j].value.status = "error"
                          /\ Succeeded(k)

\* C2: within one request every generated key is fetched with exactly one
\* GET and owns exactly one outcome, carrying its own key: nothing is fetched
\* twice or retried after a failure or a timeout, and the keys are distinct.
C2_OneGetOneOutcomePerKey ==
    pc # "start" =>
        /\ Len(gets) = N
        /\ \A k \in Keys : gets[k].redg_no = registrationNumbers[k]
        /\ Cardinality({registrationNumbers[k] : k \in Keys}) = N
        /\ \A k \in Keys : Settled(k) => promise[k].value.regNo = registrationNumbers[k]

\* a batch answered after one fetch timed out and another was refused
C2_Witness ==
    /\ BatchRan
    /\ \E j, k \in Keys : /\ timer[j] = "fired"
                          /\ got[k].net = "refused"

\* C5: fetchSingleResult never rejects: whatever the upstream does, a body
\* that is not JSON included, its promise is pending or fulfilled with one
\* of the four outcomes.
C5_FetchNeverRejects ==
    \A k \in Keys :
        /\ promise[k].state \in {"pending", "fulfilled"}
        /\ phase[k] = "settled" =>
              /\ promise[k].state = "fulfilled"
              /\ promise[k].value.status \in {"success", "not_found", "failed", "error"}

\* a settled batch holding a body that was not JSON and a JSON null
C5_Witness ==
    /\ AllSettled
    /\ \E j, k \in Keys : /\ got[j].body = Garbled
                          /\ got[k].body = JsonNull
                          /\ promise[j].state = "fulfilled"
                          /\ promise[k].state = "fulfilled"

\* C3: every fetch eventually resolves, so a validated GET that is still
\* unanswered is never left with nothing that can end its wait: a timer that
\* is still armed, an answer the upstream still sends, or the handler's own
\* next step.
C3_EveryFetchResolves ==
    pc = "await" => ENABLED Next

\* C4: a fetch that has exceeded the timeout holds an 'error' outcome with
\* the timeout reason, in the variants whose fetches own a controller and a
\* timer.
C4_TimeoutYieldsErrorForThatKey ==
    variant # "range" =>
        \A k \in Keys :
            (phase[k] = "late" \/ timer[k] = "fired") =>
                /\ promise[k].state = "fulfilled"
                /\ promise[k].value.status = "error"
                /\ promise[k].value.reason = TimedOut

\* the kind the classification rules give the settled fetch k, as stated
ClaimedKind(k) ==
    LET g == got[k]
    IN  CASE timer[k] = "fired" \/ g.net = "refused" -> "error"
          [] ~Ok(g.status) -> "failed"
          [] g.body.form # "object" -> promise[k].value.status
          [] g.body.status = 404 -> "not_found"
          [] g.body.status # 200 \/ ~Truthy(g.body.data) -> "failed"
          [] OTHER -> "success"

VariantKind(k) ==
    LET g == got[k]
        failed == IF variant = "peritem" THEN "error" ELSE "failed"
    IN  CASE timer[k] = "fired" \/ g.net = "refused" -> "error"
          [] ~Ok(g.status) -> failed
          [] g.body.form # "object" -> "error"
          [] g.body.status = 404 /\ variant # "range" -> "not_found"
          [] g.body.status # 200 \/ ~Truthy(g.body.data) -> failed
          [] OTHER -> "success"

C7_OneRecordPerKeyInOrder ==
    (variant = "peritem" /\ res.status = 200) =>
        /\ res.body.kind = "items"
        /\ Len(res.body.items) = N
        /\ N = BATCH_SIZE
        /\ \A k \in Keys :
              LET item == res.body.items[k]
              IN  /\ item.regNo = registrationNumbers[k]
                  /\ item.status \in {StatusSuccess, StatusNotFound, StatusTemporary}
                  /\ (item.data # NoData) <=> (item.status = StatusSuccess)
                  /\ (item.status = StatusSuccess) <=> Succeeded(k)

\* a per-item response holding each of the three statuses
C7_Witness ==
    /\ variant = "peritem"
    /\ res.status = 200
    /\ \E a, b, c \in Keys :
          /\ res.body.items[a].status = StatusSuccess
          /\ res.body.items[b].status = StatusNotFound
          /\ res.body.items[c].status = StatusTemporary
          /\ a > b

\* the data of the successful outcomes among the first k keys, in key order
RECURSIVE SuccessDataUpTo(_)
SuccessDataUpTo(k) ==
    IF k = 0 THEN <<>>
    ELSE SuccessDataUpTo(k - 1)
         \o (IF Succeeded(k) THEN <<promise[k].value.data>> ELSE <<>>)

\* C8: in the two aggregate variants every completed batch, the one in which
\* every fetch fails included, is answered 200 with exactly the data of the
\* Success outcomes in key order; the range variant's count is their number
\* and its total_attempted the number of generated keys.
C8_AggregateKeepsExactlySuccesses ==
    (variant # "peritem" /\ BatchRan) =>
        /\ res.status = 200
        /\ res.body.kind = IF variant = "range" THEN "summary" ELSE "data"
        /\ res.body.results = SuccessDataUpTo(N)
        /\ variant = "range" =>
              /\ res.body.count = Cardinality({k \in Keys : Succeeded(k)})
              /\ res.body.total_attempted = N

\* a batch of the range variant in which every fetch failed, answered 200
C8_Witness ==
    /\ variant = "range"
    /\ BatchRan
    /\ \A k \in Keys : ~Succeeded(k)
    /\ res.status = 200
    /\ res.body.count = 0
    /\ res.body.total_attempted = (Range1Hi - Range1Lo + 1) + (Range2Hi - Range2Lo + 1)

\* a GET request fails the checks the claim lists
FailsListedChecks(q, regParam) ==
    \/ ~regParam.present
    \/ Len(regParam.val) # RegNoLength
    \/ \E k \in 1..Len(regParam.val) : ~IsDigit(regParam.val[k])
    \/ ~q.year.present
    \/ q.year.val = <<>>
    \/ ~IsDigit(q.year.val[1])
    \/ ~q.semester.present
    \/ ToUpperCase(q.semester.val) \notin romanMap
    \/ ~q.exam_held.present
    \/ q.exam_held.val = <<>>

\* the registration parameter each variant reads
RegParam == IF variant = "range" THEN req.query.prefix ELSE req.query.reg_no

\* C9 as stated: a GET request failing any of the listed checks is answered
\* 400 by every variant, and no upstream GET is issued for it.
C9_InvalidRejectedInEveryVariant ==
    (req.method = "GET" /\ FailsListedChecks(req.query, RegParam)) =>
        /\ gets = <<>>
        /\ pc = "done" => res.status = 400

\* a GET request fails the checks of the variant: the range variant checks
\* the registration number alone
FailsVariantChecks ==
    IF variant = "range"
    THEN \/ ~RegParam.present
         \/ Len(RegParam.val) # RegNoLength
         \/ \E k \in 1..Len(RegParam.val) : ~IsDigit(RegParam.val[k])
    ELSE FailsListedChecks(req.query, RegParam)

\* C9 as amended: a GET request failing a check its variant performs (the
\* batch variants: all four; the range variant: the registration number
\* only) is answered 400, and no upstream GET is issued for it.
C9_InvalidRejectedByItsVariant ==
    (req.method = "GET" /\ FailsVariantChecks) =>
        /\ gets = <<>>
        /\ registrationNumbers = <<>>
        /\ pc = "done" => res.status = 400 /\ res.body.kind = "error"

\* a batch variant has rejected a request whose only fault is its reg_no
C9_Witness ==
    /\ variant = "aggregate"
    /\ req.method = "GET"
    /\ req.query.reg_no = Given(Prefix8 \o <<"0", "0", "x">>)
    /\ req.query.year = Given(Year2024)
    /\ req.query.semester = Given(<<"V">>)
    /\ req.query.exam_held = Given(July2025)
    /\ pc = "done"
    /\ res.status = 400

\* C10: whatever the upstream does to the fetches of a batch, the validated
\* GET is answered 200: no response carries 500.
C10_UpstreamNeverCauses500 ==
    /\ res.status # 500
    /\ BatchRan => res.status = 200

\* a per-item batch answered 200 although no fetch succeeded and the bodies
\* were malformed or empty
C10_Witness ==
    /\ variant = "peritem"
    /\ BatchRan
    /\ res.status = 200
    /\ \A k \in Keys : ~Succeeded(k)
    /\ \E j \in Keys : got[j].body = JsonNull
    /\ \E k \in Keys : got[k].body.form = "object" /\ got[k].body.status = 500

\* the parts of the generated key k, and the number its suffix spells
KeyPrefix(k) == SubSeq(registrationNumbers[k], 1, PREFIX_LENGTH)
KeySuffix(k) == SubSeq(registrationNumbers[k], PREFIX_LENGTH + 1,
                       Len(registrationNumbers[k]))
SuffixNumber(k) == DigitsValue(KeySuffix(k))

\* the suffix of key k is written as the generator writes it: three digits
\* with leading zeros below 900, the plain number from 900 up
WellPadded(k) ==
    /\ \A c \in 1..Len(KeySuffix(k)) : IsDigit(KeySuffix(k)[c])
    /\ SuffixNumber(k) < PadLimit => Len(KeySuffix(k)) = RegNoLength - PREFIX_LENGTH
    /\ SuffixNumber(k) >= PadLimit => Head(KeySuffix(k)) # "0"

\* the GET request passes the validation of the batch variants
ValidBatchRequest ==
    /\ variant # "range"
    /\ req.method = "GET"
    /\ ~FailsListedChecks(req.query, req.query.reg_no)

\* C11: for every valid 11-digit reg_no = prefix + suffix s the batch
\* variants generate exactly 5 keys, in ascending order, with the suffix
\* numbers s, s+1, ..., s+4 under that prefix, each suffix zero-padded to 3
\* digits below 900 and unpadded from 900 up.
C11_FiveKeysFromSuffix ==
    (ValidBatchRequest /\ pc # "start") =>
        LET r == req.query.reg_no.val
            s == DigitsValue(SubSeq(r, PREFIX_LENGTH + 1, RegNoLength))
        IN  /\ N = 5
            /\ \A k \in Keys :
                  /\ KeyPrefix(k) = SubSeq(r, 1, PREFIX_LENGTH)
                  /\ SuffixNumber(k) = s + k - 1
                  /\ WellPadded(k)
            /\ \A k \in 1..(N - 1) : SuffixNumber(k) < SuffixNumber(k + 1)

\* the batch generated from a suffix below 100: 007 gives 007 .. 011
C11_Witness ==
    /\ variant = "aggregate"
    /\ req.query.reg_no = Given(OtherPrefix8 \o <<"0", "0", "7">>)
    /\ N = 5
    /\ registrationNumbers[1] = OtherPrefix8 \o <<"0", "0", "7">>
    /\ registrationNumbers[5] = OtherPrefix8 \o <<"0", "1", "1">>

\* C12: for every valid input the range variant generates exactly 111 keys,
\* the suffixes 10..60 followed by 901..960, in ascending suffix order, all
\* under the first 8 digits of the input, each suffix zero-padded to 3 digits
\* below 900 and unpadded from 900 up.
C12_RangeKeysOfFixedDoubleRange ==
    /\ (variant = "range" /\ N > 0) => ElevenDigits(req.query.prefix)
    /\ (variant = "range" /\ ElevenDigits(req.query.prefix) /\ pc # "start") =>
          LET first == Range1Hi - Range1Lo + 1
          IN  /\ N = 111
              /\ \A k \in Keys :
                    /\ KeyPrefix(k) = SubSeq(req.query.prefix.val, 1, 8)
                    /\ SuffixNumber(k) = IF k <= first THEN Range1Lo + k - 1
                                         ELSE Range2Lo + k - first - 1
                    /\ WellPadded(k)
              /\ \A k \in 1..(N - 1) : SuffixNumber(k) < SuffixNumber(k + 1)
              /\ SuffixNumber(N) = Range2Hi

\* the range generated from a registration number ending in 997
C12_Witness ==
    /\ variant = "range"
    /\ req.query.prefix = Given(OtherPrefix8 \o <<"9", "9", "7">>)
    /\ N = 111
    /\ registrationNumbers[1] = OtherPrefix8 \o <<"0", "1", "0">>
    /\ registrationNumbers[52] = OtherPrefix8 \o <<"9", "0", "1">>
    /\ registrationNumbers[111] = OtherPrefix8 \o <<"9", "6", "0">>

\* the number of keys the variant is configured to fetch for one request
ConfiguredMaximum ==
    IF variant = "range" THEN (Range1Hi - Range1Lo + 1) + (Range2Hi - Range2Lo + 1)
    ELSE BATCH_SIZE

C19_KeysAreElevenDigits ==
    (variant # "range" /\ N > 0) =>
        /\ N = BATCH_SIZE
        /\ \A k \in Keys :
              /\ Len(registrationNumbers[k]) = 11
              /\ \A c \in 1..Len(registrationNumbers[k]) :
                    IsDigit(registrationNumbers[k][c])
              /\ SuffixNumber(k) <= 999
        /\ \A j, k \in Keys : j # k => registrationNumbers[j] # registrationNumbers[k]

\* a string of digits only, and a string parseInt reads a number from: white
\* space, at most one sign, then a digit
AllDigits(s) == s # <<>> /\ \A k \in 1..Len(s) : IsDigit(s[k])
ReadsNumber(s) ==
    \E i \in 1..Len(s) :
        /\ IsDigit(s[i])
        /\ \A j \in 1..(i - 1) : s[j] = " " \/ (j = i - 1 /\ s[j] \in {"+", "-"})

SemesterKnown(q) == q.semester.present /\ ToUpperCase(q.semester.val) \in romanMap

\* which of the four cases of the claim the query q is: exactly one
\* parameter invalid, the others well formed
ClaimedCase(q) ==
    LET regOk == ElevenDigits(q.reg_no)
        yearOk == q.year.present /\ AllDigits(q.year.val)
        examOk == ~Falsy(q.exam_held)
    IN  CASE regOk /\ SemesterKnown(q) /\ examOk /\ ~Falsy(q.year) /\ ~yearOk
               -> "year malformed"
          [] regOk /\ yearOk /\ examOk /\ Falsy(q.semester)
               -> "semester missing"
          [] regOk /\ yearOk /\ examOk /\ ~Falsy(q.semester) /\ ~SemesterKnown(q)
               -> "semester unrecognized"
          [] regOk /\ yearOk /\ SemesterKnown(q) /\ ~examOk
               -> "exam_held missing"
          [] OTHER -> "none"

\* C14 as stated: a malformed year, a missing semester, an unrecognized
\* semester and a missing exam_held, each the only invalid parameter of a
\* GET, are answered 400 with a message no other of the four cases gets.
C14_FourDistinctMessages ==
    (variant # "range" /\ pc # "start" /\ ClaimedCase(req.query) # "none") =>
        /\ pc = "done"
        /\ res.status = 400
        /\ \A q \in ValidationQueries(variant) :
              ClaimedCase(q) \notin {"none", ClaimedCase(req.query)} =>
                  validationError(q) # res.body.error

\* the cases the batch variants tell apart: a year no number can be read
\* from, a semester missing or unrecognized, a missing exam_held
VariantCase(q) ==
    LET regOk == ElevenDigits(q.reg_no)
        yearOk == q.year.present /\ ReadsNumber(q.year.val)
        examOk == ~Falsy(q.exam_held)
    IN  CASE regOk /\ SemesterKnown(q) /\ examOk /\ ~Falsy(q.year) /\ ~yearOk
               -> "year"
          [] regOk /\ yearOk /\ examOk /\ ~SemesterKnown(q)
               -> "semester"
          [] regOk /\ yearOk /\ SemesterKnown(q) /\ ~examOk
               -> "exam_held"
          [] OTHER -> "none"

\* C14 as amended: in the batch variants a year from which parseInt reads no
\* number, a semester missing or unrecognized, and a missing exam_held, each
\* the only invalid parameter of a GET, are answered 400; the year, the
\* semester and the exam_held message differ from one another, and the
\* missing and the unrecognized semester get the same message.
C14_ThreeDistinctMessages ==
    (variant # "range" /\ pc # "start" /\ VariantCase(req.query) # "none") =>
        /\ pc = "done"
        /\ res.status = 400
        /\ res.body.kind = "error"
        /\ gets = <<>>
        /\ \A q \in ValidationQueries(variant) :
              /\ VariantCase(q) \notin {"none", VariantCase(req.query)} =>
                    validationError(q) # res.body.error
              /\ VariantCase(q) = VariantCase(req.query) =>
                    validationError(q) = res.body.error

\* a request whose only fault is an unrecognized semester code, rejected
C14_Witness ==
    /\ variant = "peritem"
    /\ pc = "done"
    /\ req.query.semester = Given(<<"I", "X">>)
    /\ VariantCase(req.query) = "semester"
    /\ res.status = 400
    /\ res.body.error = MsgSemester

\* the data the upstream sent for the successful keys among the first k
RECURSIVE UpstreamDataUpTo(_)
UpstreamDataUpTo(k) ==
    IF k = 0 THEN <<>>
    ELSE UpstreamDataUpTo(k - 1)
         \o (IF Succeeded(k) THEN <<got[k].body.data>> ELSE <<>>)

\* C15: the data returned for a Success outcome is the data field of the
\* upstream's JSON payload for that key: in the per-item variant without
\* father_name and mother_name and otherwise field for field, in the other
\* variants unchanged; nothing is added, removed or altered, and the data
\* of one key never stands under another key.
C15_SuccessDataIsUpstreamData ==
    /\ \A k \in Keys :
          Succeeded(k) => /\ got[k].body.form = "object"
                          /\ promise[k].value.data = got[k].body.data
    /\ (variant = "peritem" /\ res.status = 200) =>
          \A k \in Keys :
              LET item == res.body.items[k]
                  sent == got[k].body.data
              IN  item.status = StatusSuccess =>
                     /\ item.regNo = registrationNumbers[k]
                     /\ got[k].body.form = "object"
                     /\ DOMAIN item.data = DOMAIN sent \ {"father_name", "mother_name"}
                     /\ \A f \in DOMAIN item.data : item.data[f] = sent[f]
                     /\ item.data.redg_no = registrationNumbers[k]
    /\ (variant # "peritem" /\ res.status = 200) =>
          res.body.results = UpstreamDataUpTo(N)

\* a per-item response with two successes, the parents' names the upstream
\* sent stripped from the data
C15_Witness ==
    /\ variant = "peritem"
    /\ res.status = 200
    /\ \E j, k \in Keys :
          /\ j # k
          /\ res.body.items[j].status = StatusSuccess
          /\ res.body.items[k].status = StatusSuccess
          /\ "father_name" \in DOMAIN got[k].body.data
          /\ "father_name" \notin DOMAIN res.body.items[k].data
          /\ res.body.items[k].data.name = got[k].body.data.name

\* C16: every response sent, in every variant and for every status,
\* carries the three permissive CORS headers.
C16_CorsOnEveryResponse ==
    res.sends > 0 => CorsHeaders \subseteq res.headers

\* C17: an OPTIONS request is answered 204 with no body and the CORS
\* headers, whatever its query, and no upstream GET is issued for it.
C17_OptionsAnswered204 ==
    req.method = "OPTIONS" =>
        /\ gets = <<>>
        /\ pc # "await"
        /\ pc = "done" => /\ res.status = 204
                          /\ res.body = NoContent
                          /\ CorsHeaders \subseteq res.headers

\* C18: a request whose method is neither GET nor OPTIONS is answered 405
\* with an Allow header, and no upstream GET is issued for it.
C18_OtherMethodsAnswered405 ==
    req.method \notin {"GET", "OPTIONS"} =>
        /\ gets = <<>>
        /\ pc # "await"
        /\ pc = "done" => /\ res.status = 405
                          /\ "Allow" \in res.headers

\* C20: every invocation sends exactly one response: never a second one,
\* an invocation that has ended has sent one, and one that awaits its batch
\* has sent none yet and is never left with nothing that can bring it to its
\* response.
C20_ExactlyOneResponse ==
    /\ res.sends <= 1
    /\ pc = "done" => res.sends = 1
    /\ pc = "await" => (res.sends = 0 /\ ENABLED Next)

====
